---- MODULE Spec2Model ----
(***************************************************************************)
(* Model of bidict/_util.py: the three helpers                             *)
(*   _iteritems_mapping_or_iterable, _iteritems_args_kw, inverted          *)
(* and the module-level iterator _NULL_IT, together with the Python        *)
(* iterator objects they build (list/dict-items iterators, itertools.chain,*)
(* generator expressions, itertools.repeat).  A task calls one helper and  *)
(* then pulls the returned iterator one next() at a time.                  *)
(***************************************************************************)
EXTENDS Integers, Sequences, FiniteSets, TLC

(* pending[t] : the call task t makes: helper, positional arguments as     *)
(*              they were before the call, keyword arguments               *)
(* pc[t]      : "idle" before the call, "open" while the result is being   *)
(*              iterated, "done" once next() raised StopIteration,         *)
(*              "raised" after any other exception                         *)
(* args[t]    : the positional argument objects as they are now            *)
(* res[t]     : the iterator the call returned (None before / on error)    *)
(* err[t]     : the exception raised, if any                               *)
(* out[t]     : the items next() has handed to the caller so far           *)
(* log[t]     : per step (the call, then each next()), the operations it   *)
(*              performed on the sources                                   *)
(* nullit     : the module global _NULL_IT                                 *)
VARIABLES pending, pc, args, res, err, out, log, nullit

vars == <<pending, pc, args, res, err, out, log, nullit>>

(* ------------------------------ bounds -------------------------------- *)
MaxLen == 2
MaxKw == 2
MaxArgs == 3
MaxHook == 1
MaxExtraPulls == 1

Tasks == {1, 2}
Keys == {1, 2}
Vals == {3, 4}
Pairs == Keys \X Vals
InvPairs == Vals \X Keys

SeqsUpTo(S, n) == UNION {[1..k -> S] : k \in 0..n}

UniqueFirst(s) == \A i, j \in 1..Len(s) : i # j => s[i][1] # s[j][1]

(* ------------------------- argument objects --------------------------- *)
(* cls: "dict"     a dict (a Mapping; truth value from __len__)            *)
(*      "falsymap" a Mapping subclass whose __bool__ returns False         *)
(*      "bidict"   a Mapping with a callable __inverted__ attribute        *)
(*      "list"     a list of pairs (truth value from __len__)              *)
(*      "attrlist" a list subclass with a non-callable __inverted__        *)
(*      "iterator" a single-pass iterator of pairs (iter(x) is x; always   *)
(*                 true; items holds what it has not yet produced)         *)
Obj(c, s, h) == [cls |-> c, items |-> s, hook |-> h]

MapItems == {s \in SeqsUpTo(Pairs, MaxLen) : UniqueFirst(s)}
SeqItems == SeqsUpTo(Pairs, MaxLen)
HookItems == SeqsUpTo(InvPairs, MaxHook)

Objs ==
    {Obj(c, s, <<>>) : c \in {"dict", "falsymap"}, s \in MapItems}
    \cup {Obj(c, s, <<>>) : c \in {"list", "attrlist", "iterator"}, s \in SeqItems}
    \cup {Obj("bidict", s, h) : s \in MapItems, h \in HookItems}

KwDicts == {s \in SeqsUpTo(Pairs, MaxKw) : UniqueFirst(s)}

(* a fixed handful of objects: the surplus positional arguments of an      *)
(* over-long call, and the inputs of the concurrent specification          *)
SampleItems == {<<>>, << <<1, 3>> >>, << <<1, 3>>, <<2, 3>> >>}
SampleObjs ==
    {Obj(c, s, <<>>) : c \in {"dict", "falsymap", "list", "iterator"}, s \in SampleItems}
    \cup {Obj("bidict", s, << <<4, 2>> >>) : s \in SampleItems}
SampleKw == {<<>>, << <<2, 4>> >>}

isinstance_Mapping_Never(o) == FALSE
(* isinstance(arg, Mapping) *)
isinstance_Mapping(o) == o.cls \in {"dict", "falsymap", "bidict"}

Bool_Always(o) == TRUE
(* `if arg:` is bool(arg): __bool__ if the class defines it, else __len__, *)
(* else True                                                               *)
Bool(o) ==
    CASE o.cls = "falsymap" -> FALSE
      [] o.cls = "iterator" -> TRUE
      [] OTHER -> Len(o.items) > 0

(* getattr(arg, '__inverted__', None): a bound method, some other value,   *)
(* or the default None                                                     *)
getattr_inverted(o) ==
    CASE o.cls = "bidict" -> "method"
      [] o.cls = "attrlist" -> "value"
      [] OTHER -> "None"

callable_Never(inv) == FALSE
(* callable(inv) *)
callable(inv) == inv = "method"

(* ------------------------------ values -------------------------------- *)
(* what next() hands out is a tuple: a pair <<k, v>>, a lone key <<k>> (a  *)
(* Mapping iterated directly gives its keys), or <<>> for Python's None    *)
NoneItem == <<>>
None == [t |-> "None"]
Ref(i) == [t |-> "ref", i |-> i]
Ev(op, src) == <<op, src>>
NoError == [type |-> "none", got |-> 0]
NoCall == [fn |-> "none", args |-> <<>>, kw |-> <<>>]

NULL_IT_Once == [t |-> "repeat", times |-> 1]
(* _NULL_IT = repeat(None, 0) *)
NULL_IT == [t |-> "repeat", times |-> 0]

(* environment of a call: the caller's argument objects and keyword dict,  *)
(* and the module global _NULL_IT                                          *)
Env(objs, kw, null) == [objs |-> objs, kw |-> kw, null |-> null]

Yield(it, env, x, ev) == [it |-> it, env |-> env, val |-> <<x>>, ev |-> ev, exc |-> FALSE]
StopIteration(it, env, ev) == [it |-> it, env |-> env, val |-> <<>>, ev |-> ev, exc |-> FALSE]

Swap_Not(item) == item
Swap_Dup(item) == <<item[2], item[2]>>
(* (val, key) for (key, val) in ... *)
Swap(item) == <<item[2], item[1]>>

chain_Swapped(a, b) == [t |-> "chain", a |-> b, b |-> a, at |-> 1]
(* chain(itemchain, iterkw) *)
chain(a, b) == [t |-> "chain", a |-> a, b |-> b, at |-> 1]

(* ------------------------- next() on an iterator ---------------------- *)
(* seqiter : iterator over a list, over a Mapping (its keys) or over the   *)
(*           items view of a Mapping                                       *)
(* self    : a single-pass argument, which is its own iterator             *)
(* kwiter  : iter(kw.items())                                              *)
(* hookres : the object returned by arg.__inverted__()                     *)
(* chain   : itertools.chain of two iterators                              *)
(* genexpr : ((val, key) for (key, val) in src)                            *)
(* NULL_IT : the module global repeat(None, 0)                             *)
RECURSIVE Next_(_, _)
Next_(it, env) ==
    CASE it.t = "seqiter" ->
            LET s == env.objs[it.i].items IN
            IF it.n < Len(s)
            THEN Yield([it EXCEPT !.n = @ + 1], env,
                       IF it.keys THEN <<s[it.n + 1][1]>> ELSE s[it.n + 1],
                       <<Ev("next", "arg")>>)
            ELSE StopIteration(it, env, <<Ev("stop", "arg")>>)
      [] it.t = "self" ->
            LET s == env.objs[it.i].items IN
            IF s # <<>>
            THEN Yield(it, [env EXCEPT !.objs[it.i].items = Tail(s)], Head(s),
                       <<Ev("next", "arg")>>)
            ELSE StopIteration(it, env, <<Ev("stop", "arg")>>)
      [] it.t = "kwiter" ->
            IF it.n < Len(env.kw)
            THEN Yield([it EXCEPT !.n = @ + 1], env, env.kw[it.n + 1], <<Ev("next", "kw")>>)
            ELSE StopIteration(it, env, <<Ev("stop", "kw")>>)
      [] it.t = "hookres" ->
            LET s == env.objs[it.i].hook IN
            IF it.n < Len(s)
            THEN Yield([it EXCEPT !.n = @ + 1], env, s[it.n + 1], <<Ev("next", "hook")>>)
            ELSE StopIteration(it, env, <<Ev("stop", "hook")>>)
      [] it.t = "NULL_IT" ->
            IF env.null.times > 0
            THEN Yield(it, [env EXCEPT !.null.times = @ - 1], NoneItem,
                       <<Ev("next", "null")>>)
            ELSE StopIteration(it, env, <<Ev("stop", "null")>>)
      [] it.t = "chain" ->
            IF it.at = 1
            THEN LET ra == Next_(it.a, env) IN
                 IF ra.val # <<>> \/ ra.exc
                 THEN [ra EXCEPT !.it = [it EXCEPT !.a = ra.it]]
                 ELSE LET rb == Next_(it.b, ra.env) IN
                      [rb EXCEPT !.it = [it EXCEPT !.a = ra.it, !.b = rb.it,
                                            !.at = IF rb.val # <<>> \/ rb.exc THEN 2 ELSE 3],
                                 !.ev = ra.ev \o rb.ev]
            ELSE IF it.at = 2
            THEN LET rb == Next_(it.b, env) IN
                 [rb EXCEPT !.it = [it EXCEPT !.b = rb.it,
                                       !.at = IF rb.val # <<>> \/ rb.exc THEN 2 ELSE 3]]
            ELSE StopIteration(it, env, <<>>)
      [] it.t = "genexpr" ->
            IF it.fin
            THEN StopIteration(it, env, <<>>)
            ELSE LET r == Next_(it.src, env) IN
                 IF r.exc
                 THEN [r EXCEPT !.it = [it EXCEPT !.src = r.it, !.fin = TRUE]]
                 ELSE IF r.val = <<>>
                 THEN [r EXCEPT !.it = [it EXCEPT !.src = r.it, !.fin = TRUE]]
                 ELSE IF Len(r.val[1]) # 2
                 THEN (* (key, val) = item fails: the generator dies *)
                      [r EXCEPT !.it = [it EXCEPT !.src = r.it, !.fin = TRUE],
                                !.val = <<>>, !.exc = TRUE]
                 ELSE [r EXCEPT !.it = [it EXCEPT !.src = r.it],
                                !.val = <<Swap(r.val[1])>>]

(* -------------------------- the three helpers ------------------------- *)
Returns(it, ev) == [ret |-> it, ev |-> ev, err |-> NoError]
Raises(e) == [ret |-> None, ev |-> <<>>, err |-> e]

(* iter(x) for x an argument object, the items view of one, or an iterator *)
iter(x, env) ==
    CASE x.t = "items" ->
            Returns([t |-> "seqiter", i |-> x.i, n |-> 0, keys |-> FALSE],
                    <<Ev("items", "arg"), Ev("iter", "arg")>>)
      [] x.t = "ref" ->
            LET o == env.objs[x.i] IN
            IF o.cls = "iterator"
            THEN Returns([t |-> "self", i |-> x.i], <<Ev("iter", "arg")>>)
            ELSE Returns([t |-> "seqiter", i |-> x.i, n |-> 0,
                          keys |-> o.cls \in {"dict", "falsymap", "bidict"}],
                         <<Ev("iter", "arg")>>)
      [] OTHER -> Returns(x, <<>>)

iteritems_Draining(x, env) ==
    IF x.t = "ref"
    THEN Returns([t |-> "self", i |-> x.i], <<Ev("iter", "arg")>>)
    ELSE Returns(x, <<>>)

(* return iter(arg.items() if isinstance(arg, Mapping) else arg) *)
iteritems_mapping_or_iterable(x, env) ==
    IF x.t = "ref" /\ isinstance_Mapping(env.objs[x.i])
    THEN iter([t |-> "items", i |-> x.i], env)
    ELSE iter(x, env)

TooMany_Loose(args_len) == args_len > 2
(* if args_len > 1: raise TypeError(...) *)
TooMany(args_len) == args_len > 1

(* TypeError(f'Expected at most 1 positional argument, got {args_len}') *)
TypeError(args_len) == [type |-> "TypeError", got |-> args_len]

(* (key, val) = item on something that is not a pair *)
UnpackError == [type |-> "UnpackError", got |-> 0]

Truth_Never(it) == FALSE
(* truth value of `itemchain`: None is false, an iterator object is true *)
Truth(it) == it.t # "None"

iteritems_args_kw(args_len, env) ==
    IF TooMany(args_len)
    THEN Raises(TypeError(args_len))
    ELSE LET given == args_len > 0
             used == given /\ Bool(env.objs[1])
             r == iteritems_mapping_or_iterable(Ref(1), env)
             itemchain1 == IF used THEN r.ret ELSE None
             ev1 == (IF given THEN <<Ev("bool", "arg")>> ELSE <<>>)
                    \o (IF used THEN r.ev ELSE <<>>)
             iterkw == [t |-> "kwiter", n |-> 0]
             itemchain2 == IF env.kw # <<>>
                           THEN IF Truth(itemchain1) THEN chain(itemchain1, iterkw)
                                ELSE iterkw
                           ELSE itemchain1
             ev2 == IF env.kw # <<>> THEN <<Ev("items", "kw"), Ev("iter", "kw")>> ELSE <<>>
         IN Returns(IF Truth(itemchain2) THEN itemchain2 ELSE [t |-> "NULL_IT"],
                    ev1 \o ev2)

inverted(x, env) ==
    LET inv == IF x.t = "ref" THEN getattr_inverted(env.objs[x.i]) ELSE "None" IN
    IF callable(inv)
    THEN Returns([t |-> "hookres", i |-> x.i, n |-> 0], <<Ev("call", "hook")>>)
    ELSE LET r == iteritems_mapping_or_iterable(x, env) IN
         Returns([t |-> "genexpr", src |-> r.ret, fin |-> FALSE], r.ev)

(* ------------------------------ the calls ----------------------------- *)
Call(fn, a, kw) == [fn |-> fn, args |-> a, kw |-> kw]

Calls ==
    {Call(fn, <<o>>, <<>>) : fn \in {"normalize", "inverted"}, o \in Objs}
    \cup {Call("inverted2", <<o>>, <<>>) :
            o \in {x \in Objs : x.cls \in {"dict", "falsymap", "bidict"}}}
    \cup {Call("combine", <<>>, kw) : kw \in KwDicts}
    \cup {Call("combine", <<o>>, kw) : o \in Objs, kw \in KwDicts}
    \cup {Call("combine", a, kw) :
            a \in UNION {[1..n -> SampleObjs] : n \in 2..MaxArgs}, kw \in SampleKw}

ConcCalls ==
    {Call(fn, <<o>>, <<>>) : fn \in {"normalize", "inverted"}, o \in SampleObjs}
    \cup {Call("inverted2", <<Obj("dict", s, <<>>)>>, <<>>) : s \in SampleItems}
    \cup {Call("combine", <<>>, kw) : kw \in SampleKw}
    \cup {Call("combine", <<o>>, kw) : o \in SampleObjs, kw \in SampleKw}
    \cup {Call("combine", <<o, o>>, <<>>) : o \in {Obj("list", <<>>, <<>>)}}

(* ------------------------------- actions ------------------------------ *)
InitWith(p) ==
    /\ pending = p
    /\ pc = [t \in Tasks |-> "idle"]
    /\ args = [t \in Tasks |-> p[t].args]
    /\ res = [t \in Tasks |-> None]
    /\ err = [t \in Tasks |-> NoError]
    /\ out = [t \in Tasks |-> <<>>]
    /\ log = [t \in Tasks |-> <<>>]
    /\ nullit = NULL_IT

(* one caller *)
Init == \E c \in Calls : InitWith([t \in Tasks |-> IF t = 1 THEN c ELSE NoCall])

(* several callers, each with its own arguments *)
InitConc == \E p \in [Tasks -> ConcCalls] : InitWith(p)

EnvOf(t) == Env(args[t], pending[t].kw, nullit)

(* the call returns r.ret or raises r.err *)
Returned(t, r) ==
    /\ pc' = [pc EXCEPT ![t] = IF r.err = NoError THEN "open" ELSE "raised"]
    /\ res' = [res EXCEPT ![t] = r.ret]
    /\ err' = [err EXCEPT ![t] = r.err]
    /\ log' = [log EXCEPT ![t] = <<r.ev>>]
    /\ UNCHANGED <<pending, args, out, nullit>>

CallNormalize(t) ==
    /\ pc[t] = "idle"
    /\ pending[t].fn = "normalize"
    /\ Returned(t, iteritems_mapping_or_iterable(Ref(1), EnvOf(t)))

CallCombine(t) ==
    /\ pc[t] = "idle"
    /\ pending[t].fn = "combine"
    /\ Returned(t, iteritems_args_kw(Len(pending[t].args), EnvOf(t)))

CallInverted(t) ==
    /\ pc[t] = "idle"
    /\ pending[t].fn = "inverted"
    /\ Returned(t, inverted(Ref(1), EnvOf(t)))

(* inverted(inverted(arg)): the inner result is passed on as a pair sequence *)
CallInvertedTwice(t) ==
    /\ pc[t] = "idle"
    /\ pending[t].fn = "inverted2"
    /\ LET r1 == inverted(Ref(1), EnvOf(t))
           r2 == inverted(r1.ret, EnvOf(t))
       IN Returned(t, Returns(r2.ret, r1.ev \o r2.ev))

(* number of next() calls on the result that reported exhaustion *)
Stops(t) == Len(log[t]) - 1 - Len(out[t])

(* next(result) by the caller *)
Pull(t) ==
    /\ pc[t] \in {"open", "done"}
    /\ Stops(t) <= MaxExtraPulls
    /\ LET r == Next_(res[t], EnvOf(t)) IN
       /\ res' = [res EXCEPT ![t] = r.it]
       /\ args' = [args EXCEPT ![t] = r.env.objs]
       /\ nullit' = r.env.null
       /\ out' = [out EXCEPT ![t] = @ \o r.val]
       /\ log' = [log EXCEPT ![t] = Append(@, r.ev)]
       /\ pc' = [pc EXCEPT ![t] = IF r.exc THEN "raised"
                                  ELSE IF r.val = <<>> THEN "done" ELSE @]
       /\ err' = [err EXCEPT ![t] = IF r.exc THEN UnpackError ELSE @]
    /\ UNCHANGED pending

Next ==
    \/ \E t \in Tasks : CallNormalize(t)
    \/ \E t \in Tasks : CallCombine(t)
    \/ \E t \in Tasks : CallInverted(t)
    \/ \E t \in Tasks : CallInvertedTwice(t)
    \/ \E t \in Tasks : Pull(t)

Spec == Init /\ [][Next]_vars
SpecConc == InitConc /\ [][Next]_vars

(* ======================= properties of the helpers ===================== *)
IsPrefix(a, b) == Len(a) <= Len(b) /\ a = SubSeq(b, 1, Len(a))

RECURSIVE Flat(_)
Flat(ss) == IF ss = <<>> THEN <<>> ELSE Head(ss) \o Flat(Tail(ss))

Count(evs, e) == Cardinality({i \in 1..Len(evs) : evs[i] = e})
NextCount(evs) == Cardinality({i \in 1..Len(evs) : evs[i][1] = "next"})
Touches(evs, src) == \E i \in 1..Len(evs) : evs[i][2] = src

(* the pairs a call yields when it runs by itself and is consumed fully *)
RECURSIVE Drain(_, _)
Drain(it, env) ==
    LET r == Next_(it, env) IN
    IF r.val = <<>> THEN <<>> ELSE r.val \o Drain(r.it, r.env)

AloneCombine(a, kw) ==
    LET env == Env(a, kw, NULL_IT)
        r == iteritems_args_kw(Len(a), env)
    IN Drain(r.ret, env)

AloneNormalize(a) ==
    LET env == Env(a, <<>>, NULL_IT) IN
    Drain(iteritems_mapping_or_iterable(Ref(1), env).ret, env)

AloneInverted(a) ==
    LET env == Env(a, <<>>, NULL_IT) IN Drain(inverted(Ref(1), env).ret, env)

AloneInvertedTwice(a) ==
    LET env == Env(a, <<>>, NULL_IT) IN
    Drain(inverted(inverted(Ref(1), env).ret, env).ret, env)

Alone(c) ==
    CASE c.fn = "normalize" -> AloneNormalize(c.args)
      [] c.fn = "combine" -> IF Len(c.args) > 1 THEN <<>> ELSE AloneCombine(c.args, c.kw)
      [] c.fn = "inverted" -> AloneInverted(c.args)
      [] c.fn = "inverted2" -> AloneInvertedTwice(c.args)
      [] OTHER -> <<>>

Started(t) == pc[t] # "idle"
Consumed(t) == pc[t] = "done"
Arg(t) == pending[t].args[1]
Swapped(s) == [i \in 1..Len(s) |-> <<s[i][2], s[i][1]>>]
UniqueValues(s) == \A i, j \in 1..Len(s) : i # j => s[i][2] # s[j][2]

(* out[t] so far is a prefix of e, and all of e once the result is exhausted *)
Yields(t, e) ==
    /\ pc[t] # "raised"
    /\ IsPrefix(out[t], e)
    /\ Consumed(t) => out[t] = e

(* C1: a call of _iteritems_args_kw with n > 1 positional arguments raises *)
(* TypeError at the call, the error carries n, nothing is returned and     *)
(* nothing has been pulled from any argument; with n <= 1 the call raises  *)
(* nothing.                                                                *)
C1_ArityError ==
    \A t \in Tasks :
        (pending[t].fn = "combine" /\ Started(t)) =>
            IF Len(pending[t].args) > 1
            THEN /\ pc[t] = "raised"
                 /\ err[t] = [type |-> "TypeError", got |-> Len(pending[t].args)]
                 /\ res[t] = None
                 /\ out[t] = <<>>
                 /\ Flat(log[t]) = <<>>
                 /\ args[t] = pending[t].args
            ELSE /\ pc[t] # "raised"
                 /\ err[t] = NoError

C1_Witness ==
    \E t \in Tasks :
        /\ pending[t].fn = "combine"
        /\ Len(pending[t].args) = 2
        /\ pending[t].args[1].items # <<>>
        /\ pending[t].kw # <<>>
        /\ pc[t] = "raised"

C3_Normalize ==
    \A t \in Tasks :
        (pending[t].fn = "normalize" /\ Started(t)) =>
            /\ err[t] = NoError
            /\ Yields(t, Arg(t).items)

C3_Witness ==
    \E t \in Tasks :
        /\ pending[t].fn = "normalize"
        /\ Arg(t).cls = "dict"
        /\ Consumed(t)
        /\ Len(out[t]) = 2

(* C4: without a callable __inverted__ (absent, or present but not         *)
(* callable) the i-th pair of inverted(arg) is (v, k) for the i-th pair    *)
(* (k, v) of the source; order and length are the source's, also when      *)
(* several pairs share a value.                                            *)
C4_DefaultSwap ==
    \A t \in Tasks :
        (/\ pending[t].fn = "inverted"
         /\ Started(t)
         /\ Arg(t).cls # "bidict") =>
            /\ err[t] = NoError
            /\ Yields(t, Swapped(Arg(t).items))
            /\ Consumed(t) => Len(out[t]) = Len(Arg(t).items)

C4_Witness ==
    \E t \in Tasks :
        /\ pending[t].fn = "inverted"
        /\ Arg(t).cls = "attrlist"
        /\ Len(Arg(t).items) = 2
        /\ ~UniqueValues(Arg(t).items)
        /\ Consumed(t)

(* C5: with a callable __inverted__ (also on a Mapping) inverted calls it  *)
(* exactly once and returns its result: the pairs are the hook's, in the   *)
(* hook's order, not swapped, and the argument's items are not iterated.   *)
C5_Hook ==
    \A t \in Tasks :
        (/\ pending[t].fn = "inverted"
         /\ Started(t)
         /\ Arg(t).cls = "bidict") =>
            /\ err[t] = NoError
            /\ res[t].t = "hookres"
            /\ Yields(t, Arg(t).hook)
            /\ Count(Flat(log[t]), Ev("call", "hook")) = 1
            /\ ~Touches(Flat(log[t]), "arg")

C5_Witness ==
    \E t \in Tasks :
        /\ pending[t].fn = "inverted"
        /\ Arg(t).cls = "bidict"
        /\ Arg(t).items # <<>>
        /\ Arg(t).hook # <<>>
        /\ Arg(t).hook # Swapped(Arg(t).items)
        /\ Consumed(t)

(* C6: for a Mapping m without hook and with unique values,                *)
(* list(inverted(inverted(m))) is the list of m's pairs in m's order.      *)
C6_RoundTrip ==
    \A t \in Tasks :
        (/\ pending[t].fn = "inverted2"
         /\ Started(t)
         /\ Arg(t).cls \in {"dict", "falsymap"}
         /\ UniqueValues(Arg(t).items)) =>
            /\ err[t] = NoError
            /\ Yields(t, Arg(t).items)

C6_Witness ==
    \E t \in Tasks :
        /\ pending[t].fn = "inverted2"
        /\ Arg(t).cls = "dict"
        /\ Len(Arg(t).items) = 2
        /\ UniqueValues(Arg(t).items)
        /\ Consumed(t)
        /\ out[t] = Arg(t).items

(* C7: a call pulls no element from its sources; each next() on the result *)
(* pulls at most one element from a source; and the keyword pairs are not  *)
(* pulled before the positional iterator has reported exhaustion.          *)
KwAfterArg(evs) ==
    \A j \in 1..Len(evs) :
        (evs[j] = Ev("next", "kw") /\ Touches(evs, "arg") /\ Count(evs, Ev("iter", "arg")) > 0)
            => \E i \in 1..(j - 1) : evs[i] = Ev("stop", "arg")

C7_Lazy ==
    \A t \in Tasks :
        Started(t) =>
            /\ NextCount(log[t][1]) = 0
            /\ \A j \in 2..Len(log[t]) : NextCount(log[t][j]) <= 1
            /\ Len(out[t]) = NextCount(Flat(log[t]))
            /\ KwAfterArg(Flat(log[t]))

C7_Witness ==
    \E t \in Tasks :
        /\ pending[t].fn = "combine"
        /\ Len(pending[t].args) = 1
        /\ Arg(t).cls = "iterator"
        /\ Len(out[t]) = 3
        /\ out[t][3] = pending[t].kw[1]
        /\ Count(Flat(log[t]), Ev("stop", "arg")) = 1

(* C8: whatever the interleaving of calls and next() steps of the tasks,   *)
(* each task obtains the sequence its call yields when run alone, the      *)
(* module global _NULL_IT is never changed, and a combine() without        *)
(* arguments yields nothing.                                               *)
C8_Independent ==
    /\ nullit = NULL_IT
    /\ \A t \in Tasks :
        Started(t) =>
            /\ IsPrefix(out[t], Alone(pending[t]))
            /\ Consumed(t) => out[t] = Alone(pending[t])
            /\ res[t].t = "NULL_IT" => out[t] = <<>>

C8_Witness ==
    \E t, u \in Tasks :
        /\ t # u
        /\ res[t].t = "NULL_IT" /\ Consumed(t) /\ Stops(t) > 1
        /\ res[u].t = "NULL_IT" /\ Consumed(u)
        /\ Len(log[u]) = 2

C10_Original ==
    \A t \in Tasks :
        \A i \in 1..Len(pending[t].args) : args[t][i].items = pending[t].args[i].items

(* C10 amended: every Mapping or list argument is unchanged; a single-pass *)
(* argument is never advanced by the call itself and loses exactly the     *)
(* pairs that next() on the result has pulled from it, so what it still    *)
(* yields is the rest of its original pairs in the original order.         *)
C10_ReadOnly ==
    \A t \in Tasks :
        /\ Len(args[t]) = Len(pending[t].args)
        /\ \A i \in 1..Len(pending[t].args) :
            /\ args[t][i].cls = pending[t].args[i].cls
            /\ args[t][i].hook = pending[t].args[i].hook
            /\ args[t][i].cls # "iterator" => args[t][i].items = pending[t].args[i].items
            /\ args[t][i].cls = "iterator" =>
                 LET o == pending[t].args[i].items
                     k == IF i = 1 THEN Count(Flat(log[t]), Ev("next", "arg")) ELSE 0
                 IN /\ k <= Len(o)
                    /\ args[t][i].items = SubSeq(o, k + 1, Len(o))
                    /\ Len(log[t]) <= 1 => args[t][i].items = o

C10_Witness ==
    \E t \in Tasks :
        /\ pending[t].fn = "combine"
        /\ Len(pending[t].args) = 1
        /\ Arg(t).cls = "list"
        /\ Len(Arg(t).items) = 2
        /\ Consumed(t)
        /\ Len(out[t]) >= 2

====
